---- MODULE Spec2Model ----
(***************************************************************************)
(* A model of causalign's CausalSent module (modules/causal_sent.py) and   *)
(* of its training loop (train_causal_sent.py).                            *)
(*                                                                         *)
(* Tensors are modelled symbolically: what a head receives is recorded as  *)
(* a shape tag ("pooled" at the first or last position, or "sequence") and *)
(* the input variant it was computed from.  Floats that the claims compare *)
(* are exact rationals: a fraction is a number of thousandths, a           *)
(* percentage is a record [num, den].                                      *)
(***************************************************************************)
EXTENDS Integers, Sequences, FiniteSets, TLC

VARIABLES
    \* ---- the CausalSent object ----
    status,                 \* "none" before __init__, "ok" after it, "error" if it raised
    pretrained_model_name,  \* the name given to __init__ (a sequence of characters)
    backbone_type,          \* "DistilBERT" | "LLaMA" | "none"
    sentiment_head_type,    \* self.sentiment_head_type
    riesz_head_type,        \* self.riesz_head_type
    warned,                 \* whether warnings.warn was called by __init__
    requires_grad,          \* param.requires_grad of every parameter
    training,               \* torch.nn.Module.training
    \* ---- the last call made on the object, and what it did ----
    call,                   \* [op, kind, n, present, raised]
    pre_requires_grad,      \* requires_grad as it was when the last call started
    ret,                    \* the dict returned by the unfreeze operations
    fwd,                    \* what the last forward ran, fed to the heads and returned
    \* ---- train_causal_sent ----
    pc,                     \* position in train_causal_sent
    args,                   \* the run's configuration
    epoch,                  \* the loop variable of line 94
    i,                      \* training batches done in the current epoch
    acc_bound,              \* whether "epoch_riesz_outputs" is in locals()
    epoch_riesz_outputs,    \* the three accumulators of lines 124-127
    epoch_sentiment_outputs,
    epoch_targets,
    batch,                  \* the examples of the last training batch
    tau_hat,                \* the last tau_hat computed, [sum, n] (a mean)
    seen_in_epoch,          \* history: the examples of the batches of this epoch so far
    val_done,               \* validation batches done in the current epoch
    val_passes,             \* validation passes completed in the run
    run_error               \* the exception that ended the run, or "none"

modelVars == <<status, pretrained_model_name, backbone_type, sentiment_head_type,
               riesz_head_type, warned, requires_grad, training>>
callVars  == <<call, pre_requires_grad, ret, fwd>>
trainVars == <<pc, args, epoch, i, acc_bound, epoch_riesz_outputs,
               epoch_sentiment_outputs, epoch_targets, batch, tau_hat,
               seen_in_epoch, val_done, val_passes, run_error>>
vars == <<modelVars, callVars, trainVars>>

----------------------------------------------------------------------------
(* Bounds of the model *)

\* number of encoder layers of the loaded backbone (backbone.config)
NumLayers == 3
\* largest |N| passed to unfreeze_backbone
MaxN == 4

----------------------------------------------------------------------------
(* Backbone names and the dispatch of __init__ *)

\* "sub in s" of Python strings
Contains(sub, s) ==
    \E k \in 1..(Len(s) - Len(sub) + 1) : SubSeq(s, k, k + Len(sub) - 1) = sub

Bert  == <<"b", "e", "r", "t">>
Llama == <<"l", "l", "a", "m", "a">>

DistilbertBaseUncased ==
    <<"d", "i", "s", "t", "i", "l", "b", "e", "r", "t", "-", "b", "a", "s", "e",
      "-", "u", "n", "c", "a", "s", "e", "d">>
MetaLlama31 ==
    <<"m", "e", "t", "a", "-", "l", "l", "a", "m", "a", "/", "L", "l", "a", "m",
      "a", "-", "3", ".", "1", "-", "8", "B">>
BertBaseCased ==
    <<"b", "e", "r", "t", "-", "b", "a", "s", "e", "-", "c", "a", "s", "e", "d">>
TinyLlama == <<"t", "i", "n", "y", "-", "l", "l", "a", "m", "a">>
Gpt2 == <<"g", "p", "t", "2">>
CapitalLlama == <<"L", "l", "a", "m", "a", "-", "2", "-", "7", "b">>
LlamaBert == <<"l", "l", "a", "m", "a", "-", "b", "e", "r", "t">>

\* the names __init__ is called with
Names == {DistilbertBaseUncased, MetaLlama31, BertBaseCased, TinyLlama, Gpt2,
          CapitalLlama, LlamaBert}

\* causalign.constants.SUPPORTED_BACKBONES_LIST
SUPPORTED_BACKBONES_LIST == {DistilbertBaseUncased, MetaLlama31}

\* line 32: whether __init__ warns
Warns(name) == name \notin SUPPORTED_BACKBONES_LIST

DispatchBertLast(name) ==
    IF Contains(Llama, name) THEN "LLaMA"
    ELSE IF Contains(Bert, name) THEN "DistilBERT"
    ELSE "ValueError"

\* lines 36-45: the class whose from_pretrained is called, or the error raised
Dispatch(name) ==
    IF Contains(Bert, name) THEN "DistilBERT"
    ELSE IF Contains(Llama, name) THEN "LLaMA"
    ELSE "ValueError"

HeadTypes == {"fcn", "linear", "conv"}

----------------------------------------------------------------------------
(* Parameters *)

\* A parameter is <<module, layer, name>>.  Backbone parameters of layer 0 are
\* those outside the encoder layers (embeddings, final norm).
BackboneParams == {"backbone"} \X (0..NumLayers) \X {"weight", "bias"}
RieszParams     == {"riesz"} \X {0} \X {"weight", "bias"}
SentimentParams == {"sentiment"} \X {0} \X {"weight", "bias"}
HeadParams == RieszParams \cup SentimentParams
Params == BackboneParams \cup HeadParams

\* p.numel()
Numel(p) == IF p[3] = "weight" THEN 4 ELSE 1

RECURSIVE SumNumel(_)
SumNumel(S) ==
    IF S = {} THEN 0
    ELSE LET p == CHOOSE q \in S : TRUE IN Numel(p) + SumNumel(S \ {p})

\* lines 50-52, 84-85, 94-95: requires_grad once __init__ has run
ConstructedRequiresGrad == [p \in Params |-> p \in HeadParams]

\* (trainable / total) * 100 over the parameters S, as an exact rational
Percentage(rg, S) ==
    [num |-> 100 * SumNumel({p \in S : rg[p]}), den |-> SumNumel(S)]

\* lines 97-104
percentage_trainable_params(rg) == Percentage(rg, Params)

TrainableOfModelOverBackbone(rg) ==
    [num |-> 100 * SumNumel({p \in Params : rg[p]}), den |-> SumNumel(BackboneParams)]

\* lines 106-113
percentage_trainable_backbone_params(rg) == Percentage(rg, BackboneParams)

PctIs(p, v) == p.den > 0 /\ p.num = v * p.den

NoRet == [trainable_model |-> [num |-> 0, den |-> 0],
          trainable_backbone |-> [num |-> 0, den |-> 0]]

----------------------------------------------------------------------------
(* unfreeze_backbone and unfreeze_backbone_fraction *)

Max(a, b) == IF a >= b THEN a ELSE b
Min(a, b) == IF a <= b THEN a ELSE b

\* num_layers arguments: 'all' or an integer
NumLayersAll == [kind |-> "all", n |-> 0]
NumLayersInt(n) == [kind |-> "int", n |-> n]

\* lines 128, 162: getattr(backbone, "encoder", getattr(backbone, "transformer", None)).
\* DistilBertModel keeps its layers in .transformer (a module with .layer);
\* LlamaModel has embed_tokens, layers and norm, and neither attribute.
EncoderAttr(btype) == IF btype = "DistilBERT" THEN "transformer" ELSE "None"

NoOpGuardStrict(nl) == nl.kind = "int" /\ nl.n < 0

\* line 156: isinstance(num_layers, int) and num_layers <= 0
NoOpGuard(nl) == nl.kind = "int" /\ nl.n <= 0

FirstLayers(n) == 1..Min(Max(n, 0), NumLayers)

\* line 174: layer_list[-num_layers:], as the set of layer numbers 1..NumLayers
LayersToUnfreeze(n) ==
    LET start == IF -n < 0 THEN Max(NumLayers - n, 0) ELSE Min(-n, NumLayers)
    IN  (start + 1)..NumLayers

\* lines 167-168: every backbone parameter becomes trainable
UnfreezeAll(rg) == [p \in Params |-> rg[p] \/ p \in BackboneParams]

UnfreezeOnlyLayers(rg, layers) ==
    [p \in Params |-> IF p \in BackboneParams THEN p[2] \in layers ELSE rg[p]]

\* lines 176-178: the parameters of the given layers become trainable
UnfreezeLayers(rg, layers) ==
    [p \in Params |-> rg[p] \/ (p \in BackboneParams /\ p[2] \in layers)]

\* lines 197-198
Report(rg) == [trainable_model    |-> percentage_trainable_params(rg),
               trainable_backbone |-> percentage_trainable_backbone_params(rg)]

\* lines 143-198: the outcome of unfreeze_backbone(num_layers) on a model of
\* backbone type btype whose requires_grad is rg
unfreeze_backbone(btype, rg, nl) ==
    IF NoOpGuard(nl)
    THEN [raised |-> "none", rg |-> rg, ret |-> Report(rg)]
    ELSE IF EncoderAttr(btype) = "None"
    THEN [raised |-> "AttributeError", rg |-> rg, ret |-> NoRet]
    ELSE LET after == IF nl.kind = "all" THEN UnfreezeAll(rg)
                      ELSE UnfreezeLayers(rg, LayersToUnfreeze(nl.n))
         IN  [raised |-> "none", rg |-> after, ret |-> Report(after)]

\* line 126: eps = 1e-2, in thousandths
EpsMilli == 10

TreatedAsAllNoEps(fraction) == fraction > 1000

\* line 136: fraction > 1.0 - eps (fractions are thousandths)
TreatedAsAll(fraction) == fraction > 1000 - EpsMilli

\* int(x / 1000): truncation toward zero
TruncMilli(x) == IF x >= 0 THEN x \div 1000 ELSE -((-x) \div 1000)

FractionWithoutEncoderCheck(btype, rg, fraction) ==
    unfreeze_backbone(btype, rg,
        IF TreatedAsAll(fraction) THEN NumLayersAll
        ELSE NumLayersInt(TruncMilli(NumLayers * fraction)))

\* lines 115-141
unfreeze_backbone_fraction(btype, rg, fraction) ==
    IF EncoderAttr(btype) = "None"
    THEN [raised |-> "AttributeError", rg |-> rg, ret |-> NoRet]
    ELSE LET total_backbone_layers == NumLayers
             num_layers_to_unfreeze ==
                 IF TreatedAsAll(fraction) THEN NumLayersAll
                 ELSE NumLayersInt(TruncMilli(total_backbone_layers * fraction))
         IN  unfreeze_backbone(btype, rg, num_layers_to_unfreeze)

\* the fractions the model calls unfreeze_backbone_fraction with, in thousandths
Fractions == {-500, 0, 340, 500, 670, 989, 990, 991, 995, 1000, 1500}

----------------------------------------------------------------------------
(* forward *)

Variants == <<"real", "treated", "control">>

\* backbone_output.last_hidden_state
SequenceEmbedding(v) == [shape |-> "sequence", pos |-> "all", variant |-> v]

\* lines 216-225, 258-263: last_hidden_state[:, 0, :] or [:, -1, :]
PooledEmbedding(btype, v) ==
    [shape |-> "pooled",
     pos |-> IF btype = "DistilBERT" THEN "first" ELSE "last",
     variant |-> v]

\* lines 228-235: what the Riesz head is called with
RieszInput(btype, rtype, stype, v) ==
    IF rtype \in {"fcn", "linear"} THEN PooledEmbedding(btype, v)
    ELSE SequenceEmbedding(v)

SentimentInputSharedPooling(btype, rtype, stype, v) ==
    IF rtype \in {"fcn", "linear"} \/ stype \in {"fcn", "linear"}
    THEN PooledEmbedding(btype, v)
    ELSE SequenceEmbedding(v)

\* lines 239-246: what the sentiment head is called with in training mode
SentimentInputTrain(btype, rtype, stype, v) ==
    IF stype \in {"fcn", "linear"} THEN PooledEmbedding(btype, v)
    ELSE SequenceEmbedding(v)

\* lines 257-273: what the sentiment head is called with in inference mode
SentimentInputEval(btype, stype, v) ==
    IF stype \in {"fcn", "linear"} THEN PooledEmbedding(btype, v)
    ELSE SequenceEmbedding(v)

HeadOutput(head, input) == [head |-> head, input |-> input]

\* The backbone raises on an input that is None.  The runs made of the inputs
\* `order`, in order, up to and including the first that raises.
RECURSIVE BackboneRuns(_, _)
BackboneRuns(order, present) ==
    IF order = <<>> THEN <<>>
    ELSE IF Head(order) \notin present THEN <<Head(order)>>
    ELSE <<Head(order)>> \o BackboneRuns(Tail(order), present)

FwdRaise(err, runs) ==
    [raised |-> err, backbone_calls |-> runs, riesz_inputs |-> <<>>,
     sentiment_inputs |-> <<>>, outputs |-> <<>>]

NoFwd == FwdRaise("none", <<>>)

\* lines 250-251: the order of the returned tuple
TrainReturn(s, r) == s \o r

\* lines 209-211: the inputs the backbone is run on in training mode
TrainBackboneInputs == Variants

\* lines 208-251
ForwardTrain(btype, rtype, stype, present) ==
    LET runs == BackboneRuns(TrainBackboneInputs, present)
    IN
    IF \E k \in 1..Len(runs) : runs[k] \notin present
    THEN FwdRaise("ValueError", runs)
    ELSE IF (rtype \in {"fcn", "linear"} \/ stype \in {"fcn", "linear"})
            /\ btype \notin {"DistilBERT", "LLaMA"}
    THEN FwdRaise("ValueError", runs)
    ELSE IF rtype \notin {"fcn", "linear", "conv"}
    THEN FwdRaise("ValueError", runs)
    ELSE LET rin == [k \in 1..Len(runs) |-> RieszInput(btype, rtype, stype, runs[k])]
         IN
         IF stype \notin {"fcn", "linear", "conv"}
         THEN [raised |-> "ValueError", backbone_calls |-> runs,
               riesz_inputs |-> rin, sentiment_inputs |-> <<>>, outputs |-> <<>>]
         ELSE LET sin == [k \in 1..Len(runs) |->
                             SentimentInputTrain(btype, rtype, stype, runs[k])]
              IN  [raised |-> "none", backbone_calls |-> runs,
                   riesz_inputs |-> rin, sentiment_inputs |-> sin,
                   outputs |-> TrainReturn(
                       [k \in 1..Len(sin) |-> HeadOutput("sentiment", sin[k])],
                       [k \in 1..Len(rin) |-> HeadOutput("riesz", rin[k])])]

EvalBackboneInputsAll == Variants

\* line 253: the inputs the backbone is run on in inference mode
EvalBackboneInputs == <<"real">>

\* lines 252-277
ForwardEval(btype, stype, present) ==
    LET runs == BackboneRuns(EvalBackboneInputs, present)
    IN
    IF \E k \in 1..Len(runs) : runs[k] \notin present
    THEN FwdRaise("ValueError", runs)
    ELSE IF stype \in {"fcn", "linear"} /\ btype \notin {"DistilBERT", "LLaMA"}
    THEN FwdRaise("ValueError", runs)
    ELSE IF stype \notin {"fcn", "linear", "conv"}
    THEN FwdRaise("ValueError", runs)
    ELSE LET sin == <<SentimentInputEval(btype, stype, "real")>>
         IN  [raised |-> "none", backbone_calls |-> runs,
              riesz_inputs |-> <<>>, sentiment_inputs |-> sin,
              outputs |-> <<HeadOutput("sentiment", sin[1])>>]

\* lines 200-277
forward(is_training, btype, rtype, stype, present) ==
    IF is_training THEN ForwardTrain(btype, rtype, stype, present)
    ELSE ForwardEval(btype, stype, present)

----------------------------------------------------------------------------
(* The CausalSent object: construction and the calls made on it *)

NoCall == [op |-> "none", kind |-> "none", n |-> 0, present |-> {},
           mode |-> TRUE, raised |-> "none"]

\* train_causal_sent has not been called
TrainIdle ==
    /\ pc = "idle"
    /\ args = [pretrained_model_name |-> <<>>, epochs |-> 0,
               running_ate |-> FALSE, estimate_targets_for_ate |-> FALSE,
               train_batches |-> 0, val_batches |-> 0]
    /\ epoch = 0
    /\ i = 0
    /\ acc_bound = FALSE
    /\ epoch_riesz_outputs = <<>>
    /\ epoch_sentiment_outputs = <<>>
    /\ epoch_targets = <<>>
    /\ batch = <<>>
    /\ tau_hat = [sum |-> 0, n |-> 0]
    /\ seen_in_epoch = <<>>
    /\ val_done = 0
    /\ val_passes = 0
    /\ run_error = "none"

\* before CausalSent.__init__ runs
Init ==
    /\ status = "none"
    /\ pretrained_model_name = <<>>
    /\ backbone_type = "none"
    /\ sentiment_head_type = "none"
    /\ riesz_head_type = "none"
    /\ warned = FALSE
    /\ requires_grad = [p \in Params |-> FALSE]
    /\ training = TRUE
    /\ call = NoCall
    /\ pre_requires_grad = [p \in Params |-> FALSE]
    /\ ret = NoRet
    /\ fwd = NoFwd
    /\ TrainIdle

\* lines 10-95: CausalSent(name, sentiment_head_type = st, riesz_head_type = rt)
Construct(name, st, rt) ==
    /\ status = "none"
    /\ pretrained_model_name' = name
    /\ warned' = Warns(name)
    /\ LET d == Dispatch(name) IN
       IF d = "ValueError"
       THEN /\ status' = "error"
            /\ call' = [NoCall EXCEPT !.op = "__init__", !.raised = "ValueError"]
            /\ UNCHANGED <<backbone_type, sentiment_head_type, riesz_head_type,
                           requires_grad>>
       ELSE /\ status' = "ok"
            /\ call' = [NoCall EXCEPT !.op = "__init__"]
            /\ backbone_type' = d
            /\ sentiment_head_type' = st
            /\ riesz_head_type' = rt
            /\ requires_grad' = ConstructedRequiresGrad
    /\ pre_requires_grad' = requires_grad
    /\ UNCHANGED <<training, ret, fwd, trainVars>>

\* lines 143-198: model.unfreeze_backbone(num_layers)
UnfreezeBackboneCall(nl) ==
    /\ status = "ok"
    /\ LET r == unfreeze_backbone(backbone_type, requires_grad, nl) IN
       /\ requires_grad' = r.rg
       /\ ret' = r.ret
       /\ call' = [NoCall EXCEPT !.op = "unfreeze_backbone", !.kind = nl.kind,
                                 !.n = nl.n, !.mode = training,
                                 !.raised = r.raised]
    /\ pre_requires_grad' = requires_grad
    /\ fwd' = NoFwd
    /\ UNCHANGED <<status, pretrained_model_name, backbone_type,
                   sentiment_head_type, riesz_head_type, warned, training,
                   trainVars>>

\* lines 115-141: model.unfreeze_backbone_fraction(fraction / 1000)
UnfreezeFractionCall(fraction) ==
    /\ status = "ok"
    /\ LET r == unfreeze_backbone_fraction(backbone_type, requires_grad, fraction) IN
       /\ requires_grad' = r.rg
       /\ ret' = r.ret
       /\ call' = [NoCall EXCEPT !.op = "unfreeze_backbone_fraction",
                                 !.kind = "fraction", !.n = fraction,
                                 !.mode = training, !.raised = r.raised]
    /\ pre_requires_grad' = requires_grad
    /\ fwd' = NoFwd
    /\ UNCHANGED <<status, pretrained_model_name, backbone_type,
                   sentiment_head_type, riesz_head_type, warned, training,
                   trainVars>>

\* lines 200-277: model(...), `present` being the inputs that are not None
ForwardCall(present) ==
    /\ status = "ok"
    /\ LET r == forward(training, backbone_type, riesz_head_type,
                        sentiment_head_type, present) IN
       /\ fwd' = r
       /\ call' = [NoCall EXCEPT !.op = "forward", !.kind = "inputs",
                                 !.present = present, !.mode = training,
                                 !.raised = r.raised]
    /\ pre_requires_grad' = requires_grad
    /\ ret' = NoRet
    /\ UNCHANGED <<modelVars, trainVars>>

\* model.train() and model.eval(), as train_causal_sent calls them
SetMode(m) ==
    /\ status = "ok"
    /\ training' = m
    /\ call' = [NoCall EXCEPT !.op = IF m THEN "train" ELSE "eval", !.mode = m]
    /\ pre_requires_grad' = requires_grad
    /\ ret' = NoRet
    /\ fwd' = NoFwd
    /\ UNCHANGED <<status, pretrained_model_name, backbone_type,
                   sentiment_head_type, riesz_head_type, warned, requires_grad,
                   trainVars>>

NumLayersArgs == {NumLayersAll} \cup {NumLayersInt(n) : n \in (-MaxN)..MaxN}

DoConstruct == \E name \in Names, st \in HeadTypes, rt \in HeadTypes :
                   Construct(name, st, rt)
DoUnfreezeBackbone == \E nl \in NumLayersArgs : UnfreezeBackboneCall(nl)
DoUnfreezeFraction == \E f \in Fractions : UnfreezeFractionCall(f)
DoForward == \E present \in SUBSET {"real", "treated", "control"} :
                 ForwardCall(present)
DoSetMode == \E m \in BOOLEAN : SetMode(m)

Next ==
    \/ DoConstruct
    \/ DoUnfreezeBackbone
    \/ DoUnfreezeFraction
    \/ DoForward
    \/ DoSetMode

Spec == Init /\ [][Next]_vars

----------------------------------------------------------------------------
(* Claims about the CausalSent object, checked under Spec *)

HeadsTrainable == \A p \in HeadParams : requires_grad[p]
BackboneAllTrainable == \A p \in BackboneParams : requires_grad[p]
Unfrozen(rg) == {p \in BackboneParams : rg[p]}

\* C1: once the model is constructed every head parameter is trainable in
\* every state, and no call switches a trainable backbone parameter back to
\* frozen.
C1_NeverRefrozen ==
    /\ [](status = "ok" => HeadsTrainable)
    /\ [][status = "ok" =>
            \A p \in BackboneParams : requires_grad[p] => requires_grad'[p]]_vars

\* C1 witness: unfreeze_backbone(1) was called on a model whose whole backbone
\* was already trainable, and the backbone is still wholly trainable.
C1_Witness ==
    /\ call.op = "unfreeze_backbone" /\ call.kind = "int" /\ call.n = 1
    /\ call.raised = "none"
    /\ \A p \in BackboneParams : pre_requires_grad[p]
    /\ BackboneAllTrainable
    /\ HeadsTrainable

\* C2 (as claimed): on any constructed model, of either family,
\* unfreeze_backbone("all") completes, leaves every backbone parameter
\* trainable and percentage_trainable_backbone_params() is then 100.0.
C2_UnfreezeAllGives100 ==
    (call.op = "unfreeze_backbone" /\ call.kind = "all") =>
        /\ call.raised = "none"
        /\ BackboneAllTrainable
        /\ PctIs(percentage_trainable_backbone_params(requires_grad), 100)

\* C3 (as claimed): for every fraction f with 0.99 <= f <= 1,
\* unfreeze_backbone_fraction(f) leaves the same trainable set and returns the
\* same percentages as unfreeze_backbone("all") from the same starting state.
C3_From099ActsAsAll ==
    (call.op = "unfreeze_backbone_fraction" /\ call.n >= 990 /\ call.n <= 1000) =>
        LET r == unfreeze_backbone(backbone_type, pre_requires_grad, NumLayersAll)
        IN  /\ call.raised = r.raised
            /\ requires_grad = r.rg
            /\ ret = r.ret

\* C3 (amended): for every fraction f with 0.99 < f <= 1,
\* unfreeze_backbone_fraction(f) leaves the same trainable set and returns the
\* same percentages as unfreeze_backbone("all") from the same starting state.
C3_Above099ActsAsAll ==
    (call.op = "unfreeze_backbone_fraction" /\ call.n > 990 /\ call.n <= 1000) =>
        LET r == unfreeze_backbone(backbone_type, pre_requires_grad, NumLayersAll)
        IN  /\ call.raised = r.raised
            /\ requires_grad = r.rg
            /\ ret = r.ret

\* C3 witness: unfreeze_backbone_fraction(0.995) on a DistilBERT model whose
\* backbone was frozen made the whole backbone trainable and reported 100.
C3_Witness ==
    /\ call.op = "unfreeze_backbone_fraction" /\ call.n = 995
    /\ call.raised = "none"
    /\ Unfrozen(pre_requires_grad) = {}
    /\ BackboneAllTrainable
    /\ PctIs(ret.trainable_backbone, 100)

\* what a head of type t is to receive for input variant v
ExpectedHeadInput(t, v) ==
    IF t = "conv" THEN [shape |-> "sequence", pos |-> "all", variant |-> v]
    ELSE [shape |-> "pooled",
          pos |-> IF backbone_type = "DistilBERT" THEN "first" ELSE "last",
          variant |-> v]

\* C7: in a forward call each head receives, whatever the other head's type,
\* one pooled vector (first position for DistilBERT, last for LLaMA) if its
\* type is fcn or linear and the whole sequence if it is conv; and the call
\* completes for every combination of head types when its inputs are given.
C7_HeadInputsIndependent ==
    (call.op = "forward") =>
        /\ \A k \in DOMAIN fwd.riesz_inputs :
               fwd.riesz_inputs[k] = ExpectedHeadInput(riesz_head_type, Variants[k])
        /\ \A k \in DOMAIN fwd.sentiment_inputs :
               fwd.sentiment_inputs[k] =
                   ExpectedHeadInput(sentiment_head_type, Variants[k])
        /\ (call.present = {"real", "treated", "control"} =>
               /\ call.raised = "none"
               /\ Len(fwd.sentiment_inputs) >= 1
               /\ call.mode => (Len(fwd.riesz_inputs) = 3
                                /\ Len(fwd.sentiment_inputs) = 3))

\* C7 witness: a training-mode forward of a mixed configuration (Riesz head
\* pooled, sentiment head conv) completed.
C7_Witness ==
    /\ call.op = "forward" /\ call.mode /\ call.raised = "none"
    /\ riesz_head_type = "linear" /\ sentiment_head_type = "conv"
    /\ fwd.riesz_inputs[1].shape = "pooled"
    /\ fwd.sentiment_inputs[1].shape = "sequence"

\* C8: a successful training-mode forward runs the backbone exactly three
\* times (real, treated, control) and returns six outputs, sentiment then
\* Riesz, each in the order real, treated, control; a successful
\* inference-mode forward runs the backbone once on the real input, calls no
\* Riesz head, returns the sentiment-real output alone, and succeeds whether
\* or not the treated and control inputs are given.
C8_ForwardRunsAndOutputs ==
    (call.op = "forward") =>
        IF call.mode
        THEN call.raised = "none" =>
                /\ fwd.backbone_calls = <<"real", "treated", "control">>
                /\ Len(fwd.outputs) = 6
                /\ \A k \in 1..3 :
                      /\ fwd.outputs[k].head = "sentiment"
                      /\ fwd.outputs[k].input.variant = Variants[k]
                      /\ fwd.outputs[k + 3].head = "riesz"
                      /\ fwd.outputs[k + 3].input.variant = Variants[k]
        ELSE /\ call.raised = "none" <=> "real" \in call.present
             /\ call.raised = "none" =>
                   /\ fwd.backbone_calls = <<"real">>
                   /\ fwd.riesz_inputs = <<>>
                   /\ Len(fwd.outputs) = 1
                   /\ fwd.outputs[1].head = "sentiment"
                   /\ fwd.outputs[1].input.variant = "real"

\* C8 witness: an inference-mode forward given only the real input returned
\* one output.
C8_Witness ==
    /\ call.op = "forward" /\ ~call.mode /\ call.raised = "none"
    /\ call.present = {"real"}
    /\ Len(fwd.outputs) = 1

\* C9 (as claimed): a name containing "bert" gives the first family, a name
\* containing "llama" gives the second, a name containing neither fails with
\* a ValueError and no model; a name outside the supported list is warned
\* about and dispatched the same way.
C9_DispatchOnName ==
    (status # "none") =>
        /\ Contains(Bert, pretrained_model_name) =>
               (status = "ok" /\ backbone_type = "DistilBERT")
        /\ Contains(Llama, pretrained_model_name) =>
               (status = "ok" /\ backbone_type = "LLaMA")
        /\ (~Contains(Bert, pretrained_model_name)
            /\ ~Contains(Llama, pretrained_model_name)) =>
               (status = "error" /\ backbone_type = "none")
        /\ warned <=> pretrained_model_name \notin SUPPORTED_BACKBONES_LIST

\* C9 (amended): a name containing "bert" gives the first family, whether or
\* not it also contains "llama"; a name containing "llama" and not "bert"
\* gives the second; a name containing neither fails with a ValueError and
\* no model; a name outside the supported list is warned about and dispatched
\* the same way.
C9_DispatchBertFirst ==
    (status # "none") =>
        /\ Contains(Bert, pretrained_model_name) =>
               (status = "ok" /\ backbone_type = "DistilBERT")
        /\ (Contains(Llama, pretrained_model_name)
            /\ ~Contains(Bert, pretrained_model_name)) =>
               (status = "ok" /\ backbone_type = "LLaMA")
        /\ (~Contains(Bert, pretrained_model_name)
            /\ ~Contains(Llama, pretrained_model_name)) =>
               (status = "error" /\ backbone_type = "none")
        /\ warned <=> pretrained_model_name \notin SUPPORTED_BACKBONES_LIST

\* C9 witness: an unsupported name containing both "llama" and "bert" was
\* warned about and constructed as the first family.
C9_Witness ==
    /\ call.op = "__init__" /\ status = "ok" /\ warned
    /\ Contains(Llama, pretrained_model_name)
    /\ Contains(Bert, pretrained_model_name)
    /\ backbone_type = "DistilBERT"

\* C10: unfreeze_backbone(N) with N <= 0 raises nothing and changes no
\* parameter's trainability; called directly after construction it reports a
\* backbone trainable percentage of 0.
C10_NonPositiveIsNoOp ==
    (call.op = "unfreeze_backbone" /\ call.kind = "int" /\ call.n <= 0) =>
        /\ call.raised = "none"
        /\ requires_grad = pre_requires_grad
        /\ (pre_requires_grad = ConstructedRequiresGrad =>
               PctIs(ret.trainable_backbone, 0))

\* C10 witness: unfreeze_backbone(0) on a freshly constructed model returned
\* a backbone percentage of 0 and left the backbone frozen.
C10_Witness ==
    /\ call.op = "unfreeze_backbone" /\ call.kind = "int" /\ call.n = 0
    /\ call.raised = "none"
    /\ pre_requires_grad = ConstructedRequiresGrad
    /\ Unfrozen(requires_grad) = {}
    /\ PctIs(ret.trainable_backbone, 0)

\* a percentage lies in [0, 100]
InRange(pct) == pct.den > 0 /\ 0 <= pct.num /\ pct.num <= 100 * pct.den

\* C11: in every state of a constructed model percentage_trainable_params()
\* and percentage_trainable_backbone_params() are between 0 and 100, and so
\* are both percentages of the dict an unfreeze operation returns.
C11_PercentagesInRange ==
    (status = "ok") =>
        /\ InRange(percentage_trainable_params(requires_grad))
        /\ InRange(percentage_trainable_backbone_params(requires_grad))
        /\ (call.op \in {"unfreeze_backbone", "unfreeze_backbone_fraction"}
            /\ call.raised = "none") =>
               /\ InRange(ret.trainable_model)
               /\ InRange(ret.trainable_backbone)

\* C11 witness: an unfreeze_backbone(1) call returned percentages strictly
\* between 0 and 100 for the backbone and for the model.
C11_Witness ==
    /\ call.op = "unfreeze_backbone" /\ call.kind = "int" /\ call.n = 1
    /\ call.raised = "none"
    /\ 0 < ret.trainable_backbone.num
    /\ ret.trainable_backbone.num < 100 * ret.trainable_backbone.den
    /\ 0 < ret.trainable_model.num
    /\ ret.trainable_model.num < 100 * ret.trainable_model.den

\* the parameters of the last min(n, NumLayers) encoder layers
LastLayerParams(n) ==
    {p \in BackboneParams : p[2] >= 1 /\ p[2] > NumLayers - n}

\* C12: on a backbone whose encoder layers are found, unfreeze_backbone(N)
\* with N >= 1 makes the parameters of the last min(N, L) encoder layers
\* trainable and changes the trainability of no other parameter (earlier
\* layers, embeddings, heads); on a freshly constructed model with N >= L the
\* result differs from that of unfreeze_backbone("all").
C12_LastLayersOnly ==
    (/\ call.op = "unfreeze_backbone" /\ call.kind = "int" /\ call.n >= 1
     /\ EncoderAttr(backbone_type) # "None") =>
        /\ call.raised = "none"
        /\ \A p \in LastLayerParams(call.n) : requires_grad[p]
        /\ \A p \in Params \ LastLayerParams(call.n) :
               requires_grad[p] = pre_requires_grad[p]
        /\ (pre_requires_grad = ConstructedRequiresGrad /\ call.n >= NumLayers) =>
               /\ requires_grad #
                      unfreeze_backbone(backbone_type, pre_requires_grad,
                                        NumLayersAll).rg
               /\ ~PctIs(ret.trainable_backbone, 100)

\* C12 witness: unfreeze_backbone(N) with N larger than the number of layers,
\* on a freshly constructed model, made every encoder layer trainable and left
\* the parameters outside the layers frozen.
C12_Witness ==
    /\ call.op = "unfreeze_backbone" /\ call.kind = "int" /\ call.n > NumLayers
    /\ call.raised = "none"
    /\ pre_requires_grad = ConstructedRequiresGrad
    /\ \A p \in BackboneParams : requires_grad[p] <=> p[2] >= 1

\* C13: when the backbone has neither an "encoder" nor a "transformer"
\* attribute, unfreeze_backbone("all"), unfreeze_backbone(N) with N >= 1 and
\* unfreeze_backbone_fraction(f) for any f raise AttributeError and leave
\* every parameter's trainability as it was.
C13_NoEncoderFailsUnchanged ==
    (/\ EncoderAttr(backbone_type) = "None"
     /\ \/ call.op = "unfreeze_backbone" /\ call.kind = "all"
        \/ call.op = "unfreeze_backbone" /\ call.kind = "int" /\ call.n >= 1
        \/ call.op = "unfreeze_backbone_fraction") =>
        /\ call.raised = "AttributeError"
        /\ requires_grad = pre_requires_grad
        /\ ret = NoRet

\* C13 witness: unfreeze_backbone_fraction(0) on a LLaMA model raised
\* AttributeError and the backbone is still frozen.
C13_Witness ==
    /\ backbone_type = "LLaMA"
    /\ call.op = "unfreeze_backbone_fraction" /\ call.n = 0
    /\ call.raised = "AttributeError"
    /\ requires_grad = pre_requires_grad
    /\ Unfrozen(requires_grad) = {}

----------------------------------------------------------------------------
(* train_causal_sent: the call as written (TrainSpec) *)

\* bounds of the runs
MaxEpochs == 2
MaxTrainBatches == 2
MaxValBatches == 2
MaxBatchSize == 2

\* the configurations train_causal_sent is run with
ArgsSet ==
    [pretrained_model_name : Names,
     epochs : 1..MaxEpochs,
     running_ate : BOOLEAN,
     estimate_targets_for_ate : BOOLEAN,
     train_batches : 1..MaxTrainBatches,
     val_batches : 1..MaxValBatches]

\* causal_sent.py lines 10-14: the parameters __init__ accepts
InitParameters == {"pretrained_model_name", "sentiment_head_type", "riesz_head_type"}

\* train_causal_sent.py line 89: the keywords the call passes
CallKeywords == {"bert_hidden_size", "pretrained_model_name"}

\* the locals of the loop before the loop is entered
LoopLocalsUnset ==
    /\ epoch = 0
    /\ i = 0
    /\ acc_bound = FALSE
    /\ epoch_riesz_outputs = <<>>
    /\ epoch_sentiment_outputs = <<>>
    /\ epoch_targets = <<>>
    /\ batch = <<>>
    /\ tau_hat = [sum |-> 0, n |-> 0]
    /\ seen_in_epoch = <<>>
    /\ val_done = 0
    /\ val_passes = 0
    /\ run_error = "none"

\* train_causal_sent(args) is entered
TrainInit ==
    /\ status = "none"
    /\ pretrained_model_name = <<>>
    /\ backbone_type = "none"
    /\ sentiment_head_type = "none"
    /\ riesz_head_type = "none"
    /\ warned = FALSE
    /\ requires_grad = [p \in Params |-> FALSE]
    /\ training = TRUE
    /\ call = NoCall
    /\ pre_requires_grad = [p \in Params |-> FALSE]
    /\ ret = NoRet
    /\ fwd = NoFwd
    /\ pc = "start"
    /\ args \in ArgsSet
    /\ LoopLocalsUnset

\* lines 27-91: everything up to the loop; line 89 constructs the model
TrainSetup ==
    /\ pc = "start"
    /\ IF ~(CallKeywords \subseteq InitParameters)
       THEN \* TypeError: __init__() got an unexpected keyword argument
            /\ pc' = "raised"
            /\ run_error' = "TypeError"
            /\ UNCHANGED <<modelVars, callVars>>
       ELSE /\ Construct(args.pretrained_model_name, "fcn", "fcn")
            /\ pc' = IF Dispatch(args.pretrained_model_name) = "ValueError"
                     THEN "raised" ELSE "epoch_head"
            /\ run_error' = IF Dispatch(args.pretrained_model_name) = "ValueError"
                            THEN "ValueError" ELSE "none"
    /\ UNCHANGED <<args, epoch, i, acc_bound, epoch_riesz_outputs,
                   epoch_sentiment_outputs, epoch_targets, batch, tau_hat,
                   seen_in_epoch, val_done, val_passes>>

TrainNext == TrainSetup

TrainSpec == TrainInit /\ [][TrainNext]_vars

\* C6 (as claimed): a run of train_causal_sent constructs the model and ends
\* only after the last of its E epochs, each epoch being B training steps
\* followed by one validation pass: a run configured with a backbone name
\* containing "bert" or "llama" that has ended has raised nothing and has
\* completed E validation passes.
C6_RunCompletesAllEpochs ==
    (/\ pc \in {"raised", "done"}
     /\ (Contains(Bert, args.pretrained_model_name)
         \/ Contains(Llama, args.pretrained_model_name))) =>
        /\ pc = "done"
        /\ run_error = "none"
        /\ status = "ok"
        /\ val_passes = args.epochs

----------------------------------------------------------------------------
(* train_causal_sent: the loop of lines 94-194 (LoopSpec).  The loop is     *)
(* modelled from its first line, in the state lines 27-91 leave when the    *)
(* model of line 89 has been constructed with the default head types.       *)

\* One example of a training batch as the step sees it: the Riesz head's and
\* the sentiment head's outputs for the real input, and the target.
Examples == {[riesz |-> 2, logit |-> 0, target |-> 1],
             [riesz |-> -1, logit |-> 1, target |-> 0]}

\* torch.sigmoid on the logits above, in thousandths
SigmoidMilli(x) == CASE x = 0 -> 500 [] x = 1 -> 731 [] x = -1 -> 269

\* a target (0 or 1), in thousandths
TargetMilli(t) == 1000 * t

Batches == UNION {[1..n -> Examples] : n \in 1..MaxBatchSize}

RECURSIVE Cat(_)
\* torch.cat(list, dim = 0)
Cat(list) == IF list = <<>> THEN <<>> ELSE Head(list) \o Cat(Tail(list))

RECURSIVE SumSeq(_)
SumSeq(xs) == IF xs = <<>> THEN 0 ELSE Head(xs) + SumSeq(Tail(xs))

\* torch.mean of a tensor, kept as [sum, n]
Mean(xs) == [sum |-> SumSeq(xs), n |-> Len(xs)]

\* elementwise product of two tensors of the same length
Times(xs, ys) == [k \in 1..Len(xs) |-> xs[k] * ys[k]]

RieszOf(b)   == [k \in 1..Len(b) |-> b[k].riesz]
SigmoidOf(b) == [k \in 1..Len(b) |-> SigmoidMilli(b[k].logit)]
TargetsOf(b) == [k \in 1..Len(b) |-> TargetMilli(b[k].target)]

\* line 133: torch.mean(all_riesz * all_sentiment if estimate else all_targets)
RunningTauHat(all_riesz, all_sentiment, all_targets, estimate) ==
    Mean(IF estimate THEN Times(all_riesz, all_sentiment) ELSE all_targets)

\* line 135: torch.mean(riesz * (sigmoid(sentiment) if estimate else targets))
BatchTauHat(b, estimate) ==
    Mean(Times(RieszOf(b), IF estimate THEN SigmoidOf(b) ELSE TargetsOf(b)))

\* line 94 is reached: the model is constructed, no local of the loop is bound
LoopInit ==
    /\ args \in {a \in ArgsSet : Dispatch(a.pretrained_model_name) # "ValueError"}
    /\ status = "ok"
    /\ pretrained_model_name = args.pretrained_model_name
    /\ backbone_type = Dispatch(args.pretrained_model_name)
    /\ sentiment_head_type = "fcn"
    /\ riesz_head_type = "fcn"
    /\ warned = Warns(args.pretrained_model_name)
    /\ requires_grad = ConstructedRequiresGrad
    /\ training = TRUE
    /\ call = [NoCall EXCEPT !.op = "__init__"]
    /\ pre_requires_grad = [p \in Params |-> FALSE]
    /\ ret = NoRet
    /\ fwd = NoFwd
    /\ pc = "epoch_head"
    /\ LoopLocalsUnset

\* lines 94-97: the next epoch starts (model.train()), or the loop ends
EpochHead ==
    /\ pc = "epoch_head"
    /\ IF epoch < args.epochs
       THEN /\ pc' = "train"
            /\ training' = TRUE
            /\ i' = 0
            /\ seen_in_epoch' = <<>>
       ELSE /\ pc' = "done"
            /\ UNCHANGED <<training, i, seen_in_epoch>>
    /\ UNCHANGED <<status, pretrained_model_name, backbone_type,
                   sentiment_head_type, riesz_head_type, warned, requires_grad,
                   callVars, args, epoch, acc_bound, epoch_riesz_outputs,
                   epoch_sentiment_outputs, epoch_targets, batch, tau_hat,
                   val_done, val_passes, run_error>>

\* lines 99-172: one training step on the batch b
TrainBatch(b) ==
    /\ pc = "train"
    /\ i < args.train_batches
    /\ LET r == forward(training, backbone_type, riesz_head_type,
                        sentiment_head_type, {"real", "treated", "control"})
       IN  /\ fwd' = r
           /\ call' = [NoCall EXCEPT !.op = "forward", !.kind = "inputs",
                                     !.present = {"real", "treated", "control"},
                                     !.mode = training, !.raised = r.raised]
    /\ IF args.running_ate
       THEN LET had_r == IF acc_bound THEN epoch_riesz_outputs ELSE <<>>
                had_s == IF acc_bound THEN epoch_sentiment_outputs ELSE <<>>
                had_t == IF acc_bound THEN epoch_targets ELSE <<>>
                new_r == Append(had_r, RieszOf(b))
                new_s == Append(had_s, SigmoidOf(b))
                new_t == Append(had_t, TargetsOf(b))
            IN  /\ acc_bound' = TRUE
                /\ epoch_riesz_outputs' = new_r
                /\ epoch_sentiment_outputs' = new_s
                /\ epoch_targets' = new_t
                /\ tau_hat' = RunningTauHat(Cat(new_r), Cat(new_s), Cat(new_t),
                                            args.estimate_targets_for_ate)
       ELSE /\ tau_hat' = BatchTauHat(b, args.estimate_targets_for_ate)
            /\ UNCHANGED <<acc_bound, epoch_riesz_outputs,
                           epoch_sentiment_outputs, epoch_targets>>
    /\ batch' = b
    /\ seen_in_epoch' = seen_in_epoch \o b
    /\ i' = i + 1
    /\ pc' = IF i + 1 = args.train_batches THEN "val_head" ELSE "train"
    /\ pre_requires_grad' = requires_grad
    /\ UNCHANGED <<modelVars, ret, args, epoch, val_done, val_passes, run_error>>

\* lines 175-177: model.eval(), the validation pass starts
ValHead ==
    /\ pc = "val_head"
    /\ training' = FALSE
    /\ val_done' = 0
    /\ pc' = "val"
    /\ UNCHANGED <<status, pretrained_model_name, backbone_type,
                   sentiment_head_type, riesz_head_type, warned, requires_grad,
                   callVars, args, epoch, i, acc_bound, epoch_riesz_outputs,
                   epoch_sentiment_outputs, epoch_targets, batch, tau_hat,
                   seen_in_epoch, val_passes, run_error>>

\* lines 178-188: one validation batch, model(real, None, None, mask, None, None)
ValBatch ==
    /\ pc = "val"
    /\ val_done < args.val_batches
    /\ LET r == forward(training, backbone_type, riesz_head_type,
                        sentiment_head_type, {"real"})
       IN  /\ fwd' = r
           /\ call' = [NoCall EXCEPT !.op = "forward", !.kind = "inputs",
                                     !.present = {"real"}, !.mode = training,
                                     !.raised = r.raised]
    /\ val_done' = val_done + 1
    /\ pre_requires_grad' = requires_grad
    /\ UNCHANGED <<modelVars, ret, pc, args, epoch, i, acc_bound,
                   epoch_riesz_outputs, epoch_sentiment_outputs, epoch_targets,
                   batch, tau_hat, seen_in_epoch, val_passes, run_error>>

\* lines 190-194: the validation metrics are logged, the epoch ends
ValEnd ==
    /\ pc = "val"
    /\ val_done = args.val_batches
    /\ val_passes' = val_passes + 1
    /\ epoch' = epoch + 1
    /\ pc' = "epoch_head"
    /\ UNCHANGED <<modelVars, callVars, args, i, acc_bound, epoch_riesz_outputs,
                   epoch_sentiment_outputs, epoch_targets, batch, tau_hat,
                   seen_in_epoch, val_done, run_error>>

DoTrainBatch == \E b \in Batches : TrainBatch(b)

LoopNext ==
    \/ EpochHead
    \/ DoTrainBatch
    \/ ValHead
    \/ ValBatch
    \/ ValEnd

LoopSpec == LoopInit /\ [][LoopNext]_vars

Outcome(ex, estimate) ==
    IF estimate THEN SigmoidMilli(ex.logit) ELSE TargetMilli(ex.target)

====
